---------------------------- MODULE Spec2Model ----------------------------
(***************************************************************************)
(* A model of nse_data.py: the NIFTY option-chain / futures monitor.       *)
(*                                                                         *)
(* The module holds the program's pure helpers as operators (round_strike, *)
(* pick_strikes, lookup, delta, deep_find_futures, send_telegram) and the  *)
(* polling loop main_loop as a state machine.  Five specifications share   *)
(* the variables:                                                          *)
(*   SpecStrike  round_strike and pick_strikes on drawn inputs             *)
(*   SpecDelta   delta on drawn inputs                                     *)
(*   SpecFind    deep_find_futures on drawn documents                      *)
(*   SpecSend    send_telegram on drawn credentials and HTTP outcomes      *)
(*   Spec        main_loop, with the interrupt signal                      *)
(***************************************************************************)
EXTENDS Integers, Sequences, FiniteSets, TLC

VARIABLES
    \* configuration, read once from the environment (lines 24-32)
    STRIKE_STEP, OTM_COUNT, TELEGRAM_BOT_TOKEN, TELEGRAM_CHAT_ID, SEND_EVERY_RUN,
    \* module-level state (lines 47-48)
    prev_option_snapshot, prev_fut_snapshot,
    \* main_loop: position, locals, the process's exit code
    pc, first, underlying, atm, call_strikes, put_strikes,
    sum_call_coi, sum_put_coi, sum_call_iv, sum_put_iv, count_calls, count_puts,
    fd, ok, exc, exit_code,
    \* main_loop: history of the current iteration
    polls, data, snap0, fut0, seen, fut_seen, touched, call_d, put_d,
    stage, neterr, msg, posts, log,
    \* harness of the pure helpers: position, input, result
    mode, arg, res

cfgVars == << STRIKE_STEP, OTM_COUNT, TELEGRAM_BOT_TOKEN, TELEGRAM_CHAT_ID, SEND_EVERY_RUN >>

stateVars == << prev_option_snapshot, prev_fut_snapshot >>

localVars == << first, underlying, atm, call_strikes, put_strikes,
                sum_call_coi, sum_put_coi, sum_call_iv, sum_put_iv, count_calls, count_puts,
                fd, ok >>

histVars == << polls, data, snap0, fut0, seen, fut_seen, touched, call_d, put_d,
               stage, neterr, msg, posts, log >>

loopVars == << stateVars, pc, localVars, exc, exit_code, histVars >>

harnessVars == << mode, arg, res >>

vars == << cfgVars, loopVars, harnessVars >>

(***************************************************************************)
(* Bounds of the model.                                                    *)
(***************************************************************************)
MaxStep == 4        \* STRIKE_STEP is drawn from 1..MaxStep
MaxOtm == 3         \* OTM_COUNT is drawn from 0..MaxOtm
MaxPrice == 12      \* reference prices are n/d with |n| <= MaxPrice
MaxDen == 2         \* ... and d in 1..MaxDen (halves make exact ties)
MaxVal == 2         \* field values of the triples and pairs given to delta
MaxPolls == 2       \* iterations of main_loop that the model starts
MaxCalls == 3       \* calls of send_telegram in its harness

(***************************************************************************)
(* Python values.  None and a tuple are different objects: an optional     *)
(* tuple is a record that says which of the two it is.                     *)
(***************************************************************************)
None == [some |-> FALSE, val |-> << >>]
Some(t) == [some |-> TRUE, val |-> t]

Min(a, b) == IF a <= b THEN a ELSE b
Abs(x) == IF x < 0 THEN -x ELSE x

\* The empty dict {} of line 47, as a function with no keys.
EmptyMap == [k \in {} |-> << >>]

(***************************************************************************)
(* Strike selection (lines 109-112).                                       *)
(***************************************************************************)

\* Python 3 round(x) of the quotient num/den (den > 0): the nearest integer,
\* an exact half going to the even neighbour.
PyRound(num, den) ==
    LET q == num \div den
        r == num % den
    IN  IF 2 * r < den THEN q
        ELSE IF 2 * r > den THEN q + 1
        ELSE IF q % 2 = 0 THEN q ELSE q + 1

\* A plausible slip: int(u / STRIKE_STEP) * STRIKE_STEP, truncation toward zero.
round_strike_trunc(u) ==
    LET den == u[2] * STRIKE_STEP
        q == IF u[1] >= 0 THEN u[1] \div den ELSE -((-u[1]) \div den)
    IN  q * STRIKE_STEP

\* round_strike(u) = int(round(u / STRIKE_STEP) * STRIKE_STEP); the reference
\* price u is the rational u[1]/u[2].
round_strike(u) == PyRound(u[1], u[2] * STRIKE_STEP) * STRIKE_STEP

\* A plausible slip: range(1, OTM_COUNT) in place of range(1, OTM_COUNT+1).
pick_strikes_short(a) ==
    << <<a - STRIKE_STEP, a>> \o [i \in 1..(OTM_COUNT - 1) |-> a + i * STRIKE_STEP],
       <<a + STRIKE_STEP, a>> \o [i \in 1..(OTM_COUNT - 1) |-> a - i * STRIKE_STEP] >>

\* pick_strikes(a): the pair (call strikes, put strikes).
pick_strikes(a) ==
    << <<a - STRIKE_STEP, a>> \o [i \in 1..OTM_COUNT |-> a + i * STRIKE_STEP],
       <<a + STRIKE_STEP, a>> \o [i \in 1..OTM_COUNT |-> a - i * STRIKE_STEP] >>

(***************************************************************************)
(* Delta computation (lines 121-123).                                      *)
(***************************************************************************)

\* A plausible slip: a missing previous reading treated as "no change".
delta_zero(curr, prev) ==
    IF ~prev.some THEN Some([i \in 1..Len(curr) |-> 0])
    ELSE Some([i \in 1..Min(Len(curr), Len(prev.val)) |-> curr[i] - prev.val[i]])

\* delta(curr, prev): None when prev is None, else tuple(a-b for a,b in
\* zip(curr, prev)); zip stops at the shorter of the two.
delta(curr, prev) ==
    IF ~prev.some THEN None
    ELSE Some([i \in 1..Min(Len(curr), Len(prev.val)) |-> curr[i] - prev.val[i]])

(***************************************************************************)
(* JSON documents.  A value is a record: kind is one of "dict", "list",    *)
(* "int", "float", "bool", "str", "null"; num is the number of an int or   *)
(* float (of a bool, 1 or 0, as Python's bool is); items are a dict's      *)
(* (key, value) entries in document order, or a list's values.  A key is   *)
(* the sequence of its characters.                                         *)
(***************************************************************************)
JInt(n) == [kind |-> "int", num |-> n, items |-> << >>]
JFloat(n) == [kind |-> "float", num |-> n, items |-> << >>]
JBool(b) == [kind |-> "bool", num |-> IF b THEN 1 ELSE 0, items |-> << >>]
JStr == [kind |-> "str", num |-> 0, items |-> << >>]
JNull == [kind |-> "null", num |-> 0, items |-> << >>]
JDict(entries) == [kind |-> "dict", num |-> 0, items |-> entries]
JList(values) == [kind |-> "list", num |-> 0,
                  items |-> [i \in 1..Len(values) |-> [k |-> << >>, v |-> values[i]]]]
Entry(key, value) == [k |-> key, v |-> value]

Upper == <<"A","B","C","D","E","F","G","H","I","J","K","L","M",
           "N","O","P","Q","R","S","T","U","V","W","X","Y","Z">>
LowerSeq == <<"a","b","c","d","e","f","g","h","i","j","k","l","m",
              "n","o","p","q","r","s","t","u","v","w","x","y","z">>

\* str.lower(), character by character.
LowerChar(c) ==
    IF \E i \in 1..Len(Upper) : Upper[i] = c
    THEN LowerSeq[CHOOSE i \in 1..Len(Upper) : Upper[i] = c]
    ELSE c
lower(k) == [i \in 1..Len(k) |-> LowerChar(k[i])]

\* Python's  sub in s  on strings.
Contains(sub, s) ==
    \E i \in 0..(Len(s) - Len(sub)) : \A j \in 1..Len(sub) : s[i + j] = sub[j]

W_open == <<"o", "p", "e", "n">>
W_interest == <<"i", "n", "t", "e", "r", "e", "s", "t">>
W_volume == <<"v", "o", "l", "u", "m", "e">>

(***************************************************************************)
(* Futures field discovery (lines 72-95).                                  *)
(***************************************************************************)

\* isinstance(v, (int, float)): Python's bool is a subclass of int, so a
\* JSON true or false passes the test.
IsIntOrFloat(v) == v.kind \in {"int", "float", "bool"}

\* The test of line 79 and the test of line 81 on one entry.
IsOiEntry(e) ==
    /\ Contains(W_open, lower(e.k))
    /\ Contains(W_interest, lower(e.k))
    /\ IsIntOrFloat(e.v)
IsVolEntry(e) == Contains(W_volume, lower(e.k)) /\ IsIntOrFloat(e.v)

SetMax(S) == CHOOSE x \in S : \A y \in S : y <= x
SetMin(S) == CHOOSE x \in S : \A y \in S : x <= y

\* if res: a tuple is true when it is not empty, None is false.
Truthy(r) == r.some /\ Len(r.val) > 0

RECURSIVE deep_find(_)
RECURSIVE deep_find_children(_, _)

\* The loops of lines 85-88 and 90-93: the first child, from position i on,
\* whose search gives a true result.
deep_find_children(items, i) ==
    IF i > Len(items) THEN None
    ELSE LET r == deep_find(items[i].v)
         IN  IF Truthy(r) THEN r ELSE deep_find_children(items, i + 1)

\* deep_find(obj), lines 74-94.  The loop of lines 77-82 leaves in oi and
\* vol the value of the last entry that passes each test.
deep_find(obj) ==
    IF obj.kind = "dict" THEN
        LET oiAt == {i \in 1..Len(obj.items) : IsOiEntry(obj.items[i])}
            volAt == {i \in 1..Len(obj.items) : IsVolEntry(obj.items[i])}
        IN  IF oiAt # {} /\ volAt # {}
            THEN Some(<<obj.items[SetMax(oiAt)].v.num, obj.items[SetMax(volAt)].v.num>>)
            ELSE deep_find_children(obj.items, 1)
    ELSE IF obj.kind = "list" THEN deep_find_children(obj.items, 1)
    ELSE None

deep_find_futures(js) == deep_find(js)

(***************************************************************************)
(* Harness of the pure helpers: an input is drawn at Init, one action      *)
(* applies the helper.  The loop is off (pc = "off") in these runs.        *)
(***************************************************************************)
LoopStart(p) ==
    /\ prev_option_snapshot = EmptyMap
    /\ prev_fut_snapshot = None
    /\ pc = p
    /\ first = TRUE
    /\ underlying = <<0, 1>>
    /\ atm = 0
    /\ call_strikes = << >>
    /\ put_strikes = << >>
    /\ sum_call_coi = 0 /\ sum_put_coi = 0
    /\ sum_call_iv = 0 /\ sum_put_iv = 0
    /\ count_calls = 0 /\ count_puts = 0
    /\ fd = None
    /\ ok = FALSE
    /\ exc = "none"
    /\ exit_code = -1
    /\ polls = 0
    /\ data = None
    /\ snap0 = EmptyMap
    /\ fut0 = None
    /\ seen = EmptyMap
    /\ fut_seen = None
    /\ touched = << >>
    /\ call_d = << >>
    /\ put_d = << >>
    /\ stage = "none"
    /\ neterr = {}
    /\ msg = None
    /\ posts = 0
    /\ log = {}

DefaultCreds ==
    /\ TELEGRAM_BOT_TOKEN = "token"
    /\ TELEGRAM_CHAT_ID = "chat"
    /\ SEND_EVERY_RUN = TRUE

\* Reference prices n/d.
Prices == {<<n, d>> : n \in (-MaxPrice)..MaxPrice, d \in 1..MaxDen}

InitStrike ==
    /\ STRIKE_STEP \in 1..MaxStep
    /\ OTM_COUNT \in 0..MaxOtm
    /\ DefaultCreds
    /\ LoopStart("off")
    /\ \/ mode = "round" /\ arg \in Prices
       \/ mode = "pick" /\ arg \in (-MaxPrice)..MaxPrice
    /\ res = None

RoundStrike ==
    /\ mode = "round"
    /\ res' = round_strike(arg)
    /\ mode' = "rounded"
    /\ UNCHANGED <<cfgVars, loopVars, arg>>

PickStrikes ==
    /\ mode = "pick"
    /\ res' = pick_strikes(arg)
    /\ mode' = "picked"
    /\ UNCHANGED <<cfgVars, loopVars, arg>>

NextStrike == RoundStrike \/ PickStrikes
SpecStrike == InitStrike /\ [][NextStrike]_vars

\* Triples (OI, volume, IV) and pairs (OI, volume) with small fields.
Tuples(n) == [1..n -> 0..MaxVal]
DeltaInputs ==
    {<<c, p>> : c \in Tuples(3), p \in {None} \cup {Some(t) : t \in Tuples(3)}}
    \cup {<<c, p>> : c \in Tuples(2), p \in {None} \cup {Some(t) : t \in Tuples(2)}}

InitDelta ==
    /\ STRIKE_STEP = 1
    /\ OTM_COUNT = 0
    /\ DefaultCreds
    /\ LoopStart("off")
    /\ mode = "delta"
    /\ arg \in DeltaInputs
    /\ res = None

Delta ==
    /\ mode = "delta"
    /\ res' = delta(arg[1], arg[2])
    /\ mode' = "delta_done"
    /\ UNCHANGED <<cfgVars, loopVars, arg>>

NextDelta == Delta
SpecDelta == InitDelta /\ [][NextDelta]_vars

(***************************************************************************)
(* Documents given to deep_find_futures: scalars, dicts of scalars, and    *)
(* dicts and lists whose values are scalars, dicts or lists of a dict.     *)
(***************************************************************************)
K_openInterest == <<"o", "p", "e", "n", "I", "n", "t", "e", "r", "e", "s", "t">>
K_changeinOpenInterest == <<"c", "h", "a", "n", "g", "e", "i", "n", "O", "p", "e", "n", "I", "n", "t", "e", "r", "e", "s", "t">>
K_totalTradedVolume == <<"t", "o", "t", "a", "l", "T", "r", "a", "d", "e", "d", "V", "o", "l", "u", "m", "e">>
K_open == <<"o", "p", "e", "n">>
K_data == <<"d", "a", "t", "a">>

LeafKeys == {K_openInterest, K_changeinOpenInterest, K_totalTradedVolume, K_open}
TopKeys == {K_data, K_openInterest, K_totalTradedVolume}
Scalars == {JInt(0), JInt(7), JStr, JBool(TRUE)}

\* Dicts of at most two entries with different keys, lists of at most two values.
DictsOver(keys, values) ==
    {JDict(<< >>)}
    \cup {JDict(<<Entry(k, v)>>) : k \in keys, v \in values}
    \cup {JDict(<<Entry(kv[1], v1), Entry(kv[2], v2)>>) :
            kv \in {x \in keys \X keys : x[1] # x[2]}, v1 \in values, v2 \in values}
ListsOver(values) ==
    {JList(<< >>)}
    \cup {JList(<<v>>) : v \in values}
    \cup {JList(<<v1, v2>>) : v1 \in values, v2 \in values}

Leaves == DictsOver(LeafKeys, Scalars)
Small == DictsOver({K_openInterest, K_totalTradedVolume}, {JInt(0), JInt(7)})
Mid == Scalars \cup Small \cup {JList(<<l>>) : l \in Small}
Docs == Scalars \cup Leaves \cup DictsOver(TopKeys, Mid) \cup ListsOver(Mid)

InitFind ==
    /\ STRIKE_STEP = 1
    /\ OTM_COUNT = 0
    /\ DefaultCreds
    /\ LoopStart("off")
    /\ mode = "find"
    /\ arg \in Docs
    /\ res = None

Find ==
    /\ mode = "find"
    /\ res' = deep_find_futures(arg)
    /\ mode' = "found"
    /\ UNCHANGED <<cfgVars, loopVars, arg>>

NextFind == Find
SpecFind == InitFind /\ [][NextFind]_vars

(***************************************************************************)
(* HTTP.  A request ends in a transport exception (err), or in a response  *)
(* with a status and a body; a body is a document, or no JSON at all.      *)
(***************************************************************************)
NoBody == [kind |-> "invalid", num |-> 0, items |-> << >>]
HttpError(e) == [err |-> e, status |-> 0, body |-> NoBody]
HttpResponse(st, b) == [err |-> "none", status |-> st, body |-> b]

\* Response.raise_for_status() of the requests library: HTTPError for a 4xx
\* or 5xx status, nothing for any other status.
raise_for_status(status) ==
    IF 400 <= status /\ status < 600 THEN "HTTPError" ELSE "none"

\* The classes  except Exception  catches.  SystemExit, which sys.exit
\* raises, derives from BaseException only.
ExceptionSubclasses ==
    {"ConnectionError", "Timeout", "HTTPError", "JSONDecodeError",
     "KeyError", "IndexError", "TypeError"}

Ok(v) == [exc |-> "none", val |-> v]
Raise(e) == [exc |-> e, val |-> << >>]

\* fetch_json (lines 58-61): the GET, raise_for_status, then r.json().
fetch_json(http) ==
    IF http.err # "none" THEN Raise(http.err)
    ELSE IF raise_for_status(http.status) # "none" THEN Raise(raise_for_status(http.status))
    ELSE IF http.body.kind = "invalid" THEN Raise("JSONDecodeError")
    ELSE Ok(http.body)

(***************************************************************************)
(* Notification (lines 128-139).                                           *)
(***************************************************************************)
\* os.environ.get gives None for a variable that is not set.
Unset == "<None>"
\* not x, for x a string or None.
Falsy(x) == x \in {Unset, ""}

\* A plausible slip: the handler of line 137 narrowed to transport errors.
send_telegram_catches_transport(e) == e \in {"ConnectionError", "Timeout"}

\* except Exception, line 137.
send_telegram_catches(e) == e \in ExceptionSubclasses

\* send_telegram, given how the POST of line 134 ends.  ret is the value
\* returned, posts the number of POSTs made, raised the exception that
\* leaves the function ("none" when it returns), logged whether line 138 ran.
send_telegram(http) ==
    IF Falsy(TELEGRAM_BOT_TOKEN) \/ Falsy(TELEGRAM_CHAT_ID)
    THEN [ret |-> FALSE, posts |-> 0, raised |-> "none", logged |-> FALSE]
    ELSE LET e == IF http.err # "none" THEN http.err ELSE raise_for_status(http.status)
         IN  IF e = "none"
             THEN [ret |-> TRUE, posts |-> 1, raised |-> "none", logged |-> FALSE]
             ELSE IF send_telegram_catches(e)
             THEN [ret |-> FALSE, posts |-> 1, raised |-> "none", logged |-> TRUE]
             ELSE [ret |-> FALSE, posts |-> 1, raised |-> e, logged |-> FALSE]

\* How a POST to the chat API ends.
TelegramOutcomes ==
    {HttpError("ConnectionError"), HttpError("Timeout")}
    \cup {HttpResponse(st, NoBody) : st \in {200, 204, 304, 400, 429, 500}}

Credentials == {Unset, "", "123:abc"}

InitSend ==
    /\ STRIKE_STEP = 1
    /\ OTM_COUNT = 0
    /\ TELEGRAM_BOT_TOKEN \in Credentials
    /\ TELEGRAM_CHAT_ID \in Credentials
    /\ SEND_EVERY_RUN \in BOOLEAN
    /\ LoopStart("off")
    /\ mode = "send"
    /\ arg = 0
    /\ res = None

\* One call of send_telegram; arg counts the calls, res keeps the outcome of
\* the POST beside what the call gave.
SendTelegram ==
    /\ mode \in {"send", "sent"}
    /\ arg < MaxCalls
    /\ \E http \in TelegramOutcomes :
           res' = [http |-> http, out |-> send_telegram(http)]
    /\ arg' = arg + 1
    /\ mode' = "sent"
    /\ UNCHANGED <<cfgVars, loopVars>>

NextSend == SendTelegram
SpecSend == InitSend /\ [][NextSend]_vars

\* C6 as stated: send_telegram never raises; without credentials it returns
\* False and makes no request; any response that is not 2xx, or a network
\* exception, gives False; success gives True; at most one POST per call.
C6_Original ==
    mode = "sent" =>
        LET creds == ~Falsy(TELEGRAM_BOT_TOKEN) /\ ~Falsy(TELEGRAM_CHAT_ID)
            is2xx == res.http.err = "none" /\ res.http.status \in 200..299
        IN  /\ res.out.raised = "none"
            /\ res.out.posts <= 1
            /\ ~creds => res.out.ret = FALSE /\ res.out.posts = 0
            /\ creds /\ ~is2xx => res.out.ret = FALSE
            /\ creds /\ is2xx => res.out.ret = TRUE

\* C6, amended: the failures are the 4xx and 5xx responses and the network
\* exceptions; every other response (2xx, and a 3xx or 1xx that reaches
\* raise_for_status) gives True with exactly one POST.
C6_SendNeverRaises ==
    mode = "sent" =>
        LET creds == ~Falsy(TELEGRAM_BOT_TOKEN) /\ ~Falsy(TELEGRAM_CHAT_ID)
            failed == \/ res.http.err # "none"
                      \/ res.http.status \in 400..599
        IN  /\ res.out.raised = "none"
            /\ res.out.posts <= 1
            /\ ~creds => res.out.ret = FALSE /\ res.out.posts = 0
            /\ creds /\ failed => res.out.ret = FALSE /\ res.out.posts = 1
            /\ creds /\ ~failed => res.out.ret = TRUE /\ res.out.posts = 1

\* C6 witness: with both credentials set, a call that met a 5xx response and
\* returned False after one POST.
C6_Witness ==
    /\ mode = "sent"
    /\ ~Falsy(TELEGRAM_BOT_TOKEN) /\ ~Falsy(TELEGRAM_CHAT_ID)
    /\ res.http.err = "none" /\ res.http.status >= 500
    /\ res.out.ret = FALSE /\ res.out.posts = 1

(***************************************************************************)
(* The option-chain document and its helpers (lines 66-70, 114-119).       *)
(* A document is [hasRecords, expiryDates, underlyingValue, rows]; a row   *)
(* is [expiryDate, strikePrice, CE, PE]; a leg is [present, openInterest,  *)
(* totalTradedVolume, impliedVolatility].  A field is a JSON value, or     *)
(* JMissing when the key is not there.  The implied volatility is counted  *)
(* in hundredths.                                                          *)
(***************************************************************************)
JMissing == [kind |-> "missing", num |-> 0, items |-> << >>]
Leg(oi, vol, iv) ==
    [present |-> TRUE, openInterest |-> oi, totalTradedVolume |-> vol,
     impliedVolatility |-> iv]
NoLeg ==
    [present |-> FALSE, openInterest |-> JMissing, totalTradedVolume |-> JMissing,
     impliedVolatility |-> JMissing]
Row(e, s, ce, pe) == [expiryDate |-> e, strikePrice |-> s, CE |-> ce, PE |-> pe]

\* extract_data(js): raises KeyError without "records", IndexError with no
\* expiry date; keeps the rows of the first expiry date.
extract_data(js) ==
    IF ~js.hasRecords THEN Raise("KeyError")
    ELSE IF Len(js.expiryDates) = 0 THEN Raise("IndexError")
    ELSE LET expiry == js.expiryDates[1]
             IsNear(d) == d.expiryDate = expiry
         IN  Ok(<<expiry, js.underlyingValue, SelectSeq(js.rows, IsNear)>>)

\* d[key] followed by int(...): KeyError for a missing key, TypeError for null.
Subscript(v) ==
    IF v.kind = "missing" THEN Raise("KeyError")
    ELSE IF v.kind = "null" THEN Raise("TypeError")
    ELSE Ok(v.num)

\* int(leg.get(key, 0)) and float(leg.get(key, 0.0)): the default for a
\* missing key, TypeError for null.
GetNumber(v) ==
    IF v.kind = "missing" THEN Ok(0)
    ELSE IF v.kind = "null" THEN Raise("TypeError")
    ELSE Ok(v.num)

LegOf(d, t) == IF t = "CE" THEN d.CE ELSE d.PE

RECURSIVE lookup_from(_, _, _, _)
\* The loop of lines 115-118 from row i on, and the default of line 119.
lookup_from(rows, i, strike, t) ==
    IF i > Len(rows) THEN Ok(<<0, 0, 0>>)
    ELSE LET d == rows[i]
             sp == Subscript(d.strikePrice)
         IN  IF sp.exc # "none" THEN Raise(sp.exc)
             ELSE IF sp.val = strike /\ LegOf(d, t).present
             THEN LET leg == LegOf(d, t)
                      oi == GetNumber(leg.openInterest)
                      vol == GetNumber(leg.totalTradedVolume)
                      iv == GetNumber(leg.impliedVolatility)
                  IN  IF oi.exc # "none" THEN Raise(oi.exc)
                      ELSE IF vol.exc # "none" THEN Raise(vol.exc)
                      ELSE IF iv.exc # "none" THEN Raise(iv.exc)
                      ELSE Ok(<<oi.val, vol.val, iv.val>>)
             ELSE lookup_from(rows, i + 1, strike, t)

lookup(rows, strike, t) == lookup_from(rows, 1, strike, t)

(***************************************************************************)
(* fetch_futures (lines 97-107).                                           *)
(***************************************************************************)
\* A plausible slip: no handler around the fetch, every exception leaves.
fetch_futures_catches_nothing(e) == FALSE

\* except Exception, line 105.
fetch_futures_catches(e) == e \in ExceptionSubclasses

\* fetch_futures, given how the GET ends: val is the pair returned, raised
\* the exception that leaves the function, logged the lines it logs.
fetch_futures(http) ==
    LET js == fetch_json(http)
    IN  IF js.exc # "none"
        THEN IF fetch_futures_catches(js.exc)
             THEN [val |-> <<0, 0>>, raised |-> "none", logged |-> {"Futures fetch error"}]
             ELSE [val |-> <<0, 0>>, raised |-> js.exc, logged |-> {}]
        ELSE LET r == deep_find_futures(js.val)
             IN  IF Truthy(r)
                 THEN [val |-> r.val, raised |-> "none", logged |-> {}]
                 ELSE [val |-> <<0, 0>>, raised |-> "none",
                       logged |-> {"Futures fields not found"}]

(***************************************************************************)
(* One iteration's strike loops (lines 173-198).                           *)
(***************************************************************************)
Key(s, t) == <<s, t>>

\* dict.get(key): None for a key that is not there.
MapGet(m, k) == IF k \in DOMAIN m THEN Some(m[k]) ELSE None

\* A plausible slip: setdefault in place of the assignment, which keeps the
\* first reading of a key for ever.
StoreReadingOnce(m, k, v) ==
    [x \in DOMAIN m \cup {k} |-> IF x \in DOMAIN m THEN m[x] ELSE v]

\* A plausible slip: the map rebuilt from the one reading.
StoreReadingAlone(m, k, v) == [x \in {k} |-> v]

\* prev_option_snapshot[(s, side)] = (oi, vol, iv), lines 181 and 195.
StoreReading(m, k, v) ==
    [x \in DOMAIN m \cup {k} |-> IF x = k THEN v ELSE m[x]]

RECURSIVE iterate_side(_, _, _, _, _)
\* The loop over one side's strikes from position i on.  st carries the
\* snapshot, the sums and the count; ds, touched and seen are the history of
\* the deltas computed, the keys stored and the readings looked up; exc is
\* the exception that ended the loop.
iterate_side(rows, strikes, i, t, st) ==
    IF i > Len(strikes) THEN st
    ELSE LET s == strikes[i]
             r == lookup(rows, s, t)
         IN  IF r.exc # "none" THEN [st EXCEPT !.exc = r.exc]
             ELSE LET reading == r.val
                      prev == MapGet(st.snap, Key(s, t))
                      d == delta(reading, prev)
                  IN  iterate_side(rows, strikes, i + 1, t,
                        [snap |-> StoreReading(st.snap, Key(s, t), reading),
                         sum_coi |-> st.sum_coi + reading[1],
                         sum_iv |-> st.sum_iv + reading[3],
                         count |-> st.count + 1,
                         ds |-> Append(st.ds, d),
                         touched |-> Append(st.touched, Key(s, t)),
                         seen |-> [x \in DOMAIN st.seen \cup {Key(s, t)} |->
                                     IF x = Key(s, t) THEN reading ELSE st.seen[x]],
                         exc |-> "none"])

SideStart(snap, touchedSoFar, seenSoFar) ==
    [snap |-> snap, sum_coi |-> 0, sum_iv |-> 0, count |-> 0, ds |-> << >>,
     touched |-> touchedSoFar, seen |-> seenSoFar, exc |-> "none"]

Max(a, b) == IF a >= b THEN a ELSE b

\* build_message (lines 142-156): the fields the text shows.  An average is
\* the pair (sum, divisor).
build_message(expiry, u, a, scc, spc, aciv, apiv, fut_delta) ==
    [expiry |-> expiry, underlying |-> u, atm |-> a,
     calls_total_coi |-> scc, puts_total_coi |-> spc,
     calls_avg_iv |-> aciv, puts_avg_iv |-> apiv, futures_delta |-> fut_delta]

(***************************************************************************)
(* What the servers answer in the runs of main_loop.                       *)
(***************************************************************************)
\* Strikes the exchange lists, in ascending order, and the two price levels.
ListedStrikes == [i \in 1..11 |-> 5 + i]
Levels == {1, 2}
LoopPrices == {<<10, 1>>, <<25, 2>>}

NearExpiry == "E1"
FarExpiry == "E2"

QuotedLeg(s, t, level) ==
    Leg(JInt(level * 10 + s), JInt(level), JInt(IF t = "CE" THEN 1500 + s ELSE 1700 + s))
QuotedRow(s, level) ==
    Row(NearExpiry, JInt(s), QuotedLeg(s, "CE", level), QuotedLeg(s, "PE", level))

\* The rows of a flavour: "full" lists every strike; "hole" has no row for
\* strike 10 and no put at strike 12; "nullOI" has a null open interest in the
\* put at strike 10; "badRow" has a row without strikePrice before strike 11.
\* Every flavour starts with a row of the far expiry.
RowsOf(flavour, level) ==
    LET far == <<Row(FarExpiry, JInt(10), QuotedLeg(10, "CE", level + 5),
                     QuotedLeg(10, "PE", level + 5))>>
        all == [i \in 1..Len(ListedStrikes) |-> QuotedRow(ListedStrikes[i], level)]
        NotTen(d) == d.strikePrice.num # 10
        Low(d) == d.strikePrice.num < 11
        High(d) == d.strikePrice.num >= 11
    IN  far \o
        CASE flavour = "full" -> all
          [] flavour = "hole" ->
                [i \in 1..Len(SelectSeq(all, NotTen)) |->
                    LET d == SelectSeq(all, NotTen)[i]
                    IN  IF d.strikePrice.num = 12 THEN [d EXCEPT !.PE = NoLeg] ELSE d]
          [] flavour = "nullOI" ->
                [i \in 1..Len(all) |->
                    IF all[i].strikePrice.num = 10
                    THEN [all[i] EXCEPT !.PE.openInterest = JNull]
                    ELSE all[i]]
          [] flavour = "badRow" ->
                SelectSeq(all, Low)
                \o <<Row(NearExpiry, JMissing, NoLeg, NoLeg)>>
                \o SelectSeq(all, High)

OcDoc(records, expiries, u, rows) ==
    [kind |-> "oc", hasRecords |-> records, expiryDates |-> expiries,
     underlyingValue |-> u, rows |-> rows]

OcDocs ==
    {OcDoc(TRUE, <<NearExpiry, FarExpiry>>, Some(u), RowsOf(f, l)) :
        u \in LoopPrices, f \in {"full", "hole", "nullOI", "badRow"}, l \in Levels}
    \cup {OcDoc(FALSE, << >>, None, << >>),
          OcDoc(TRUE, << >>, Some(<<10, 1>>), << >>),
          OcDoc(TRUE, <<NearExpiry>>, None, RowsOf("full", 1))}

\* How the GET of the option chain ends.
OcOutcomes ==
    {HttpError("Timeout"), HttpResponse(403, NoBody), HttpResponse(200, NoBody)}
    \cup {HttpResponse(200, js) : js \in OcDocs}

\* How the GET of the derivative quote ends.
FutDocs ==
    {JDict(<<Entry(K_open, JInt(7))>>),
     JDict(<<Entry(K_data, JList(<<JDict(<<Entry(K_openInterest, JInt(7)),
                                           Entry(K_totalTradedVolume, JInt(3))>>)>>))>>),
     JDict(<<Entry(K_openInterest, JInt(0)), Entry(K_totalTradedVolume, JInt(0))>>)}
FutOutcomes ==
    {HttpError("ConnectionError"), HttpResponse(500, NoBody)}
    \cup {HttpResponse(200, js) : js \in FutDocs}

\* How the POST to the chat API ends.
LoopTelegramOutcomes ==
    {HttpError("Timeout"), HttpResponse(200, NoBody), HttpResponse(400, NoBody)}

\* The environments of the runs.
LoopConfigs ==
    {[step |-> 2, otm |-> 1, token |-> "123:abc", chat |-> "42", send |-> TRUE],
     [step |-> 1, otm |-> 0, token |-> "123:abc", chat |-> Unset, send |-> TRUE],
     [step |-> 3, otm |-> 2, token |-> "123:abc", chat |-> "42", send |-> FALSE]}

(***************************************************************************)
(* main_loop (lines 158-227) and the interrupt signal (line 230).          *)
(***************************************************************************)
Init ==
    /\ \E c \in LoopConfigs :
           /\ STRIKE_STEP = c.step
           /\ OTM_COUNT = c.otm
           /\ TELEGRAM_BOT_TOKEN = c.token
           /\ TELEGRAM_CHAT_ID = c.chat
           /\ SEND_EVERY_RUN = c.send
    /\ LoopStart("warmup")
    /\ mode = "loop"
    /\ arg = 0
    /\ res = None

\* A plausible slip: the handler of line 224 narrowed to the errors of the
\* requests library.
main_loop_catches_requests(e) ==
    e \in {"ConnectionError", "Timeout", "HTTPError", "JSONDecodeError"}

\* except Exception as e, line 224.
main_loop_catches(e) == e \in ExceptionSubclasses

\* The exit code of a process that an exception leaves: sys.exit(0) gives 0,
\* an uncaught error gives 1.
ExitCodeOf(e) == IF e = "SystemExit" THEN 0 ELSE 1

\* An exception e raised inside the try of line 163.
RaisedInTry(e) ==
    IF main_loop_catches(e)
    THEN /\ pc' = "except"
         /\ exc' = e
         /\ UNCHANGED exit_code
    ELSE /\ pc' = "exited"
         /\ exc' = e
         /\ exit_code' = ExitCodeOf(e)

\* warmup() (lines 51-56, 159): two GETs whose exceptions are passed over.
Warmup ==
    /\ pc = "warmup"
    /\ pc' = "poll"
    /\ UNCHANGED <<cfgVars, stateVars, localVars, exc, exit_code, histVars, harnessVars>>

\* Lines 164-198 as a function of the server's answer and the snapshot: the
\* fetch of the option chain, the extraction, the ATM strike, the strike
\* lists and the two strike loops.  early is an exception raised before the
\* loops, e the exception that ends the try block ("none": none did).
Compute(http, snapshot, seenSoFar) ==
    LET js == fetch_json(http)
        ex == IF js.exc = "none" THEN extract_data(js.val) ELSE Raise(js.exc)
        u == IF ex.exc = "none" THEN ex.val[2] ELSE None
        a == IF u.some THEN round_strike(u.val) ELSE 0
        strikes == pick_strikes(a)
        rows == IF ex.exc = "none" THEN ex.val[3] ELSE << >>
        early == IF ex.exc # "none" THEN ex.exc
                 ELSE IF ~u.some THEN "TypeError" ELSE "none"
    IN  IF early # "none"
        THEN [early |-> early, e |-> early, extracted |-> ex.exc = "none", rows |-> rows,
              u |-> <<0, 1>>, a |-> 0, strikes |-> << << >>, << >> >>,
              calls |-> SideStart(snapshot, << >>, seenSoFar),
              puts |-> SideStart(snapshot, << >>, seenSoFar)]
        ELSE LET calls == iterate_side(rows, strikes[1], 1, "CE",
                                       SideStart(snapshot, << >>, seenSoFar))
             IN  IF calls.exc # "none"
                 THEN [early |-> "none", e |-> calls.exc, extracted |-> TRUE, rows |-> rows,
                       u |-> u.val, a |-> a, strikes |-> strikes, calls |-> calls,
                       puts |-> SideStart(calls.snap, calls.touched, calls.seen)]
                 ELSE LET puts == iterate_side(rows, strikes[2], 1, "PE",
                                    SideStart(calls.snap, calls.touched, calls.seen))
                      IN  [early |-> "none", e |-> puts.exc, extracted |-> TRUE,
                           rows |-> rows, u |-> u.val, a |-> a, strikes |-> strikes,
                           calls |-> calls, puts |-> puts]

\* One pass through lines 164-198.  An exception leaves the snapshot as the
\* loops had it when it was raised.
PollOptions ==
    /\ pc = "poll"
    /\ \E http \in OcOutcomes :
       \E it \in {Compute(http, prev_option_snapshot, seen)} :
            /\ polls' = polls + 1
            /\ snap0' = prev_option_snapshot
            /\ fut0' = prev_fut_snapshot
            /\ neterr' = IF http.err # "none" THEN {"oc"} ELSE {}
            /\ stage' = "running"
            /\ msg' = None
            /\ posts' = 0
            /\ log' = {}
            /\ data' = IF it.extracted THEN Some(it.rows) ELSE None
            /\ prev_option_snapshot' = it.puts.snap
            /\ touched' = it.puts.touched
            /\ seen' = it.puts.seen
            /\ call_d' = it.calls.ds
            /\ put_d' = it.puts.ds
            /\ IF it.early # "none"
               THEN UNCHANGED <<underlying, atm, call_strikes, put_strikes, sum_call_coi,
                                sum_put_coi, sum_call_iv, sum_put_iv, count_calls, count_puts>>
               ELSE /\ underlying' = it.u
                    /\ atm' = it.a
                    /\ call_strikes' = it.strikes[1]
                    /\ put_strikes' = it.strikes[2]
                    /\ sum_call_coi' = it.calls.sum_coi
                    /\ sum_call_iv' = it.calls.sum_iv
                    /\ count_calls' = it.calls.count
                    /\ sum_put_coi' = it.puts.sum_coi
                    /\ sum_put_iv' = it.puts.sum_iv
                    /\ count_puts' = it.puts.count
            /\ IF it.e # "none"
               THEN RaisedInTry(it.e)
               ELSE /\ pc' = "futures"
                    /\ UNCHANGED <<exc, exit_code>>
    /\ UNCHANGED <<cfgVars, prev_fut_snapshot, first, fd, ok, fut_seen, harnessVars>>

\* Lines 203-206: the futures reading and its delta.
FetchFutures ==
    /\ pc = "futures"
    /\ \E http \in FutOutcomes :
        LET r == fetch_futures(http)
        IN  /\ neterr' = IF http.err # "none" THEN neterr \cup {"fut"} ELSE neterr
            /\ log' = log \cup r.logged
            /\ IF r.raised # "none"
               THEN /\ RaisedInTry(r.raised)
                    /\ UNCHANGED <<prev_fut_snapshot, fd, fut_seen>>
               ELSE /\ fd' = delta(r.val, prev_fut_snapshot)
                    /\ prev_fut_snapshot' = Some(r.val)
                    /\ fut_seen' = Some(r.val)
                    /\ pc' = "notify"
                    /\ UNCHANGED <<exc, exit_code>>
    /\ UNCHANGED <<cfgVars, prev_option_snapshot, first, underlying, atm, call_strikes,
                   put_strikes, sum_call_coi, sum_put_coi, sum_call_iv, sum_put_iv,
                   count_calls, count_puts, ok, polls, data, snap0, fut0, seen, touched,
                   call_d, put_d, stage, msg, posts, harnessVars>>

\* Lines 200-201 and 208-222: the averages, the log lines, the message and
\* its delivery when the credentials are set and SEND_EVERY_RUN is on.
Notify ==
    /\ pc = "notify"
    /\ LET avg_call_iv == <<sum_call_iv, Max(1, count_calls)>>
           avg_put_iv == <<sum_put_iv, Max(1, count_puts)>>
           text == build_message(NearExpiry, underlying, atm, sum_call_coi, sum_put_coi,
                                 avg_call_iv, avg_put_iv, fd)
       IN  IF ~Falsy(TELEGRAM_BOT_TOKEN) /\ ~Falsy(TELEGRAM_CHAT_ID) /\ SEND_EVERY_RUN
           THEN \E http \in LoopTelegramOutcomes :
                   LET out == send_telegram(http)
                   IN  /\ msg' = Some(text)
                       /\ posts' = posts + out.posts
                       /\ log' = log \cup (IF out.logged THEN {"Telegram send failed"} ELSE {})
                       /\ IF out.raised # "none"
                          THEN /\ RaisedInTry(out.raised)
                               /\ UNCHANGED <<ok, first, stage>>
                          ELSE /\ ok' = out.ret
                               /\ first' = FALSE
                               /\ stage' = "done"
                               /\ pc' = "sleep"
                               /\ UNCHANGED <<exc, exit_code>>
           ELSE /\ first' = FALSE
                /\ stage' = "done"
                /\ pc' = "sleep"
                /\ UNCHANGED <<msg, posts, log, ok, exc, exit_code>>
    /\ UNCHANGED <<cfgVars, stateVars, underlying, atm, call_strikes, put_strikes,
                   sum_call_coi, sum_put_coi, sum_call_iv, sum_put_iv, count_calls,
                   count_puts, fd, polls, data, snap0, fut0, seen, fut_seen, touched,
                   call_d, put_d, neterr, harnessVars>>

\* Lines 224-225: the error is logged, nothing else.
HandleException ==
    /\ pc = "except"
    /\ log' = log \cup {"Main loop error"}
    /\ stage' = "failed"
    /\ pc' = "sleep"
    /\ UNCHANGED <<cfgVars, stateVars, localVars, exc, exit_code, polls, data, snap0, fut0,
                   seen, fut_seen, touched, call_d, put_d, neterr, msg, posts, harnessVars>>

\* Line 227, then the next turn of  while True.  The model starts MaxPolls
\* iterations.
Sleep ==
    /\ pc = "sleep"
    /\ polls < MaxPolls
    /\ pc' = "poll"
    /\ UNCHANGED <<cfgVars, stateVars, localVars, exc, exit_code, histVars, harnessVars>>

\* SIGINT (line 230): the handler raises SystemExit(0) wherever main_loop is.
Interrupt ==
    /\ pc \in {"warmup", "poll", "futures", "notify", "except", "sleep"}
    /\ IF main_loop_catches("SystemExit")
       THEN /\ pc' = "except"
            /\ exc' = "SystemExit"
            /\ UNCHANGED exit_code
       ELSE /\ pc' = "exited"
            /\ exc' = "SystemExit"
            /\ exit_code' = ExitCodeOf("SystemExit")
    /\ UNCHANGED <<cfgVars, stateVars, localVars, histVars, harnessVars>>

Next ==
    \/ Warmup
    \/ PollOptions
    \/ FetchFutures
    \/ Notify
    \/ HandleException
    \/ Sleep
    \/ Interrupt

Spec == Init /\ [][Next]_vars

(***************************************************************************)
(* Properties of the pure helpers.                                         *)
(***************************************************************************)

\* C1: round_strike(u) is an exact multiple of the strike step, no multiple
\* of the step is nearer to u (so |ATM - u| <= step/2), and a price halfway
\* between two multiples always goes to the even multiple of the step.
\* With u = n/d the distances are compared after multiplying by d.
C1_RoundStrikeNearest ==
    mode = "rounded" =>
        LET n == arg[1]
            d == arg[2]
            dist(m) == Abs(m * d - n)
        IN  /\ res \in Int
            /\ res % STRIKE_STEP = 0
            /\ 2 * dist(res) <= STRIKE_STEP * d
            /\ \A k \in (-(MaxPrice + 1))..(MaxPrice + 1) :
                   dist(res) <= dist(k * STRIKE_STEP)
            /\ 2 * dist(res) = STRIKE_STEP * d => (res \div STRIKE_STEP) % 2 = 0

\* C1 witness: a rounded price that lay exactly halfway between two multiples
\* of a step larger than 1, and was not itself a multiple.
C1_Witness ==
    /\ mode = "rounded"
    /\ STRIKE_STEP > 1
    /\ 2 * Abs(res * arg[2] - arg[1]) = STRIKE_STEP * arg[2]
    /\ res # 0

\* C2: pick_strikes(a) is the call list [a - step, a, a + step, ..., a + N*step]
\* and the put list [a + step, a, a - step, ..., a - N*step]; each holds
\* N + 2 strikes, all different, and all multiples of the step when a is one.
C2_PickStrikesLists ==
    mode = "picked" =>
        LET a == arg
            N == OTM_COUNT
            calls == res[1]
            puts == res[2]
            Range(q) == {q[i] : i \in 1..Len(q)}
        IN  /\ Len(calls) = N + 2 /\ Len(puts) = N + 2
            /\ calls[1] = a - STRIKE_STEP /\ calls[2] = a
            /\ \A i \in 1..N : calls[2 + i] = a + i * STRIKE_STEP
            /\ puts[1] = a + STRIKE_STEP /\ puts[2] = a
            /\ \A i \in 1..N : puts[2 + i] = a - i * STRIKE_STEP
            /\ Cardinality(Range(calls)) = N + 2
            /\ Cardinality(Range(puts)) = N + 2
            /\ a % STRIKE_STEP = 0 =>
                   \A x \in Range(calls) \cup Range(puts) : x % STRIKE_STEP = 0

\* C2 witness: strikes picked around an ATM that is a multiple of the step,
\* with at least two OTM strikes on each side.
C2_Witness ==
    /\ mode = "picked"
    /\ OTM_COUNT >= 2
    /\ STRIKE_STEP > 1
    /\ arg % STRIKE_STEP = 0
    /\ Len(res[1]) = OTM_COUNT + 2

\* C4: delta(curr, prev) is None exactly when prev is None; otherwise it is
\* the element-wise difference curr - prev, as long as curr; delta(t, t) is
\* all zeros, and None is never a tuple of zeros.
C4_DeltaSentinel ==
    mode = "delta_done" =>
        LET curr == arg[1]
            prev == arg[2]
            zeros == [i \in 1..Len(curr) |-> 0]
        IN  /\ (res = None) <=> (prev = None)
            /\ prev.some =>
                   /\ res.some
                   /\ Len(res.val) = Len(curr)
                   /\ \A i \in 1..Len(curr) : res.val[i] = curr[i] - prev.val[i]
            /\ prev = Some(curr) => res = Some(zeros)
            /\ ~prev.some => res # Some(zeros)

\* C4 witness: a delta against a previous reading that differs from the
\* current one in some field, with a negative difference.
C4_Witness ==
    /\ mode = "delta_done"
    /\ arg[2].some
    /\ res.some
    /\ Len(res.val) = 3
    /\ \E i \in 1..3 : res.val[i] < 0

\* The mapping nodes of a document, depth first, a node before its children.
RECURSIVE DictNodes(_)
RECURSIVE DictNodesFrom(_, _)
DictNodesFrom(items, i) ==
    IF i > Len(items) THEN << >>
    ELSE DictNodes(items[i].v) \o DictNodesFrom(items, i + 1)
DictNodes(obj) ==
    IF obj.kind = "dict" THEN <<obj>> \o DictNodesFrom(obj.items, 1)
    ELSE IF obj.kind = "list" THEN DictNodesFrom(obj.items, 1)
    ELSE << >>

\* A JSON number; true and false are not numbers.
IsJsonNumber(v) == v.kind \in {"int", "float"}
OiValues(node) ==
    {node.items[i].v.num : i \in {j \in 1..Len(node.items) :
        /\ Contains(W_open, lower(node.items[j].k))
        /\ Contains(W_interest, lower(node.items[j].k))
        /\ IsJsonNumber(node.items[j].v)}}
VolValues(node) ==
    {node.items[i].v.num : i \in {j \in 1..Len(node.items) :
        /\ Contains(W_volume, lower(node.items[j].k))
        /\ IsJsonNumber(node.items[j].v)}}
Qualifies(node) == OiValues(node) # {} /\ VolValues(node) # {}

\* C5: deep_find_futures returns the (open interest, volume) pair of the
\* first mapping node, depth first, that holds a numeric value under an
\* open-interest key and a numeric value under a volume key, also when the
\* values are 0; it returns no result when no node qualifies.
C5_FirstQualifyingNode ==
    mode = "found" =>
        LET nodes == DictNodes(arg)
            hits == {i \in 1..Len(nodes) : Qualifies(nodes[i])}
        IN  IF hits = {} THEN res = None
            ELSE /\ res.some
                 /\ res.val[1] \in OiValues(nodes[SetMin(hits)])
                 /\ res.val[2] \in VolValues(nodes[SetMin(hits)])

(***************************************************************************)
(* Properties of main_loop.                                                *)
(***************************************************************************)
Range(q) == {q[i] : i \in 1..Len(q)}

RECURSIVE SumOfOiDeltas(_, _)
\* The sum of the open-interest deltas of ds from position i on, an
\* undefined delta counting as zero.
SumOfOiDeltas(ds, i) ==
    IF i > Len(ds) THEN 0
    ELSE (IF ds[i].some THEN ds[i].val[1] ELSE 0) + SumOfOiDeltas(ds, i + 1)

\* C3: the per-side total that an iteration logs and sends as "Total COI" is
\* the sum over the side's strikes of the open-interest deltas against the
\* previous poll, a key without a previous reading adding zero.
C3_TotalIsSumOfDeltas ==
    /\ pc = "notify" =>
           /\ sum_call_coi = SumOfOiDeltas(call_d, 1)
           /\ sum_put_coi = SumOfOiDeltas(put_d, 1)
    /\ msg.some =>
           /\ msg.val.calls_total_coi = SumOfOiDeltas(call_d, 1)
           /\ msg.val.puts_total_coi = SumOfOiDeltas(put_d, 1)

\* C7: no exception raised inside an iteration ends the process.  A failed
\* iteration goes to the handler, the handler and a completed iteration go to
\* the sleep, the sleep goes to the next iteration, and the process is only
\* ever left through the SystemExit(0) of the interrupt signal.
C7_OnlyInterruptEndsLoop ==
    /\ [](pc = "exited" => exc = "SystemExit" /\ exit_code = 0)
    /\ [][/\ pc = "poll" => pc' \in {"futures", "except", "exited"}
          /\ pc = "futures" => pc' \in {"notify", "except", "exited"}
          /\ pc = "notify" => pc' \in {"sleep", "except", "exited"}
          /\ pc = "except" => pc' \in {"sleep", "exited"}
          /\ pc = "sleep" => pc' \in {"poll", "exited"}
          /\ pc = "exited" => pc' = "exited"
          /\ pc' = "exited" /\ pc # "exited" => exc' = "SystemExit" /\ exit_code' = 0
          /\ pc' = "except" /\ pc # "except" => exc' \in ExceptionSubclasses]_vars

\* C7 witness: an iteration failed with a KeyError, the handler ran, the sleep
\* ended and the next iteration is about to start.
C7_Witness ==
    /\ pc = "poll"
    /\ polls >= 1
    /\ stage = "failed"
    /\ exc = "KeyError"
    /\ "Main loop error" \in log

\* The reading of a key in the rows that the most recent poll extracted.
ReadingNow(key) == lookup(data.val, key[1], key[2])

\* C8 as stated: after any sequence of iterations every key of the
\* previous-reading map holds the triple of the most recent poll, the futures
\* reading holds the most recent poll's pair, and the first poll has no
\* defined delta.
C8_Original ==
    pc = "sleep" =>
        /\ \A key \in DOMAIN prev_option_snapshot :
               /\ data.some
               /\ ReadingNow(key).exc = "none"
               /\ ReadingNow(key).val = prev_option_snapshot[key]
        /\ prev_fut_snapshot.some => stage = "done" /\ prev_fut_snapshot = fut_seen
        /\ polls = 1 => \A d \in Range(call_d) \cup Range(put_d) : d = None

\* C8, amended: every key of the previous-reading map holds the triple read
\* at the most recent lookup of that key, which for the keys stored in the
\* current iteration is the reading of the current poll's rows; the futures
\* reading holds the pair that fetch_futures returned last; and in the first
\* poll every delta is undefined.
C8_SnapshotHoldsLastLookup ==
    /\ DOMAIN prev_option_snapshot = DOMAIN seen
    /\ \A key \in DOMAIN prev_option_snapshot : prev_option_snapshot[key] = seen[key]
    /\ \A key \in Range(touched) :
           /\ data.some
           /\ ReadingNow(key) = Ok(prev_option_snapshot[key])
    /\ prev_fut_snapshot = fut_seen
    /\ polls = 1 =>
           /\ \A d \in Range(call_d) \cup Range(put_d) : d = None
           /\ fd = None

\* C8 witness: after the second poll the map holds a key that this poll did
\* not look up, with a triple that differs from the poll's own rows.
C8_Witness ==
    /\ pc = "sleep"
    /\ polls = 2
    /\ stage = "done"
    /\ \E key \in DOMAIN prev_option_snapshot \ Range(touched) :
           ReadingNow(key) # Ok(prev_option_snapshot[key])

SendingEnabled ==
    ~Falsy(TELEGRAM_BOT_TOKEN) /\ ~Falsy(TELEGRAM_CHAT_ID) /\ SEND_EVERY_RUN

\* C10 as stated: a transport failure on either fetch is logged and aborts
\* the iteration: no notification, no futures reading recorded.
C10_Original ==
    pc = "sleep" /\ neterr # {} =>
        /\ log # {}
        /\ ~msg.some /\ posts = 0
        /\ prev_fut_snapshot = fut0

\* C10, amended: a transport failure on the option-chain fetch is logged and
\* aborts the iteration, with no notification and no futures reading; a
\* transport failure on the futures fetch is logged inside fetch_futures,
\* the iteration goes on with the reading (0, 0), records it and sends the
\* notification when sending is enabled.  Either way the loop is at its sleep.
C10_FetchFailures ==
    pc = "sleep" =>
        /\ "oc" \in neterr =>
               /\ stage = "failed"
               /\ "Main loop error" \in log
               /\ ~msg.some /\ posts = 0
               /\ prev_fut_snapshot = fut0
               /\ prev_option_snapshot = snap0
        /\ "fut" \in neterr =>
               /\ stage = "done"
               /\ "Futures fetch error" \in log
               /\ prev_fut_snapshot = Some(<<0, 0>>)
               /\ msg.some <=> SendingEnabled
               /\ SendingEnabled => posts = 1

\* C10 witness: the futures fetch met a transport failure and the iteration
\* still sent its message, over an earlier futures reading.
C10_Witness ==
    /\ pc = "sleep"
    /\ "fut" \in neterr
    /\ msg.some /\ posts = 1
    /\ fut0.some /\ fut0 # prev_fut_snapshot

=============================================================================
